---- MODULE Spec2Model ----
(***************************************************************************)
(* A model of gcsf's FileManager (src/gcsf/file_manager.rs): the id_tree   *)
(* of inodes, the three cross-reference tables (files, node_ids,           *)
(* drive_ids), population from the DriveFacade, add_file, create_file and  *)
(* write, and the identifier resolution functions.                         *)
(*                                                                         *)
(* Rust's Option<T> is a sequence of length 0 (None) or 1 (Some(x)); a     *)
(* panic raised by unwrap() inside a pure function is the length-2 value   *)
(* Panic, so that the three outcomes never need a comparison of values of  *)
(* different kinds.                                                        *)
(***************************************************************************)
EXTENDS Integers, Sequences, FiniteSets, TLC

VARIABLES tree, files, node_ids, drive_ids, listing, df_log, queue, parent_id, pending, pc, cur, last, budget

vars == <<tree, files, node_ids, drive_ids, listing, df_log, queue, parent_id, pending, pc, cur, last, budget>>

(* ------------------------------ bounds --------------------------------- *)

\* longest child listing the DriveFacade returns for one container
MaxList == 2

\* number of add_file / create_file / write calls made after construction
MaxOps == 2

(* ------------------------------ Option --------------------------------- *)

None == <<>>

Some(x) == <<x>>

Unwrap(o) == o[1]

Panic == <<"panic", "panic">>

IsPanic(r) == Len(r) = 2

IsSome(o) == Len(o) = 1

(* ------------------------------ FileId --------------------------------- *)

FileId_Inode(inode) == [tag |-> "Inode", inode |-> inode]

FileId_DriveId(d) == [tag |-> "DriveId", drive_id |-> d]

FileId_NodeId(n) == [tag |-> "NodeId", node_id |-> n]

FileId_ParentAndName(parent, name) == [tag |-> "ParentAndName", parent |-> parent, name |-> name]

(* ------------------------------- File ---------------------------------- *)

\* File::inode(): the inode held in the attributes
file_inode(file) == file.ino

\* File::drive_id(): the id of the remote descriptor, if there is one
file_drive_id(file) == IF file.drive_file = None THEN None ELSE Unwrap(file.drive_file).id

\* File::set_drive_id(): writes the id into the (present) remote descriptor
set_drive_id(file, d) == [file EXCEPT !.drive_file = Some([id |-> Some(d)])]

\* File::from_drive_file(inode, drive_file)
from_drive_file(inode, drive_file) ==
    [ino |-> inode,
     name |-> drive_file.name,
     kind |-> IF drive_file.folder THEN "Directory" ELSE "RegularFile",
     drive_file |-> Some([id |-> drive_file.id])]

(* ------------------------------ id_tree -------------------------------- *)
\* Tree<Inode>: node ids are 1..Len(data) in creation order; parent[n] = 0
\* for a node without parent; children[n] is ordered; root = 0 when empty.

EmptyTree == [data |-> <<>>, parent |-> <<>>, children |-> <<>>, root |-> 0]

\* Tree::get(&node_id).is_ok()
tree_valid(t, n) == n \in 1..Len(t.data)

\* a second parentless node beside the old root (the old root is not moved)
insert_as_root_keeps_old(t, data) ==
    [data |-> Append(t.data, data),
     parent |-> Append(t.parent, 0),
     children |-> Append(t.children, <<>>),
     root |-> Len(t.data) + 1]

\* Tree::insert(Node::new(data), AsRoot): the new node becomes the root and
\* the previous root, if any, its first child
insert_as_root(t, data) ==
    LET n == Len(t.data) + 1 IN
    [data |-> Append(t.data, data),
     parent |-> Append([k \in 1..Len(t.parent) |-> IF k = t.root THEN n ELSE t.parent[k]], 0),
     children |-> Append(t.children, IF t.root = 0 THEN <<>> ELSE <<t.root>>),
     root |-> n]

\* Tree::insert(Node::new(data), UnderNode(&p)) for a valid p: appended as
\* the last child of p
insert_under_node(t, data, p) ==
    LET n == Len(t.data) + 1 IN
    [data |-> Append(t.data, data),
     parent |-> Append(t.parent, p),
     children |-> Append([t.children EXCEPT ![p] = Append(@, n)], <<>>),
     root |-> t.root]

(* ---------------------------- FileManager ------------------------------ *)
\* self is the record of the manager's four fields

Self == [tree |-> tree, files |-> files, node_ids |-> node_ids, drive_ids |-> drive_ids]

\* The resolution functions call one another (get_node_id -> get_inode ->
\* get_children -> get_node_id, get_file), and every such chain ends in the
\* FileId::Inode arm of the function called. Each function is its tail
\* applied to the Option it computes first: the tail returns None on None
\* where the code has `?` and panics on None where it has unwrap(), and a
\* panic raised while computing the Option goes on.

\* get_node_id(FileId::Inode(inode)), line 146
node_of_inode(self, inode) ==
    IF inode \in DOMAIN self.node_ids THEN Some(self.node_ids[inode]) ELSE None

\* get_node_id, DriveId arm, lines 147-149: get_inode(..).unwrap(), then the
\* Inode arm
node_of_unwrapped(self, inode) ==
    IF IsPanic(inode) \/ inode = None THEN Panic ELSE node_of_inode(self, Unwrap(inode))

\* get_node_id, ParentAndName arm, lines 152-153: get_inode(..)?, then the
\* Inode arm
node_of_found(self, inode) ==
    IF IsPanic(inode) THEN Panic
    ELSE IF inode = None THEN None
    ELSE node_of_inode(self, Unwrap(inode))

\* get_file, lines 195-196, given get_inode's result: `?`, then
\* files.get(&inode)
file_at(self, inode) ==
    IF IsPanic(inode) THEN Panic
    ELSE IF inode = None THEN None
    ELSE IF Unwrap(inode) \in DOMAIN self.files
         THEN Some(self.files[Unwrap(inode)]) ELSE None

\* .filter(Option::is_some).map(Option::unwrap).collect(), lines 186-188
collect_some(found) ==
    [k \in 1..Len(SelectSeq(found, IsSome)) |-> Unwrap(SelectSeq(found, IsSome)[k])]

\* get_children, lines 181-190, given get_node_id's result: `?`, then the
\* Files of the node's children in tree order (get_file(Inode(data)) of each,
\* line 185, get_inode of an Inode being Some(data)), a child whose inode has
\* no File left out
children_of_node(self, node_id) ==
    IF IsPanic(node_id) THEN Panic
    ELSE IF node_id = None THEN None
    ELSE IF ~tree_valid(self.tree, Unwrap(node_id)) THEN Panic
    ELSE Some(collect_some([k \in 1..Len(self.tree.children[Unwrap(node_id)]) |->
                 file_at(self, Some(self.tree.data[self.tree.children[Unwrap(node_id)][k]]))]))

\* get_children(FileId::Inode(parent))
children_of_inode(self, parent) == children_of_node(self, node_of_inode(self, parent))

\* .rev().find(..) for .find(..): the greatest index of q at which a File
\* named name stands, 0 if none
first_named_takes_last(q, name) ==
    IF \E k \in 1..Len(q) : q[k].name = name
    THEN CHOOSE k \in 1..Len(q) : q[k].name = name /\ \A j \in (k + 1)..Len(q) : q[j].name # name
    ELSE 0

\* the least index of q at which a File named name stands, 0 if none
first_named(q, name) ==
    IF \E k \in 1..Len(q) : q[k].name = name
    THEN CHOOSE k \in 1..Len(q) : q[k].name = name /\ \A j \in 1..(k - 1) : q[j].name # name
    ELSE 0

\* get_inode, ParentAndName arm, lines 172-175, given get_children's result:
\* `?`, then .find(|child| child.name == name).map(|child| child.inode())
find_by_name(children, name) ==
    IF IsPanic(children) THEN Panic
    ELSE IF children = None THEN None
    ELSE IF first_named(Unwrap(children), name) = 0 THEN None
    ELSE Some(file_inode(Unwrap(children)[first_named(Unwrap(children), name)]))

\* the FileId::Inode arm looked up in node_ids, as the other arms look up
\* their tables
get_inode_checks_inode(self, id) ==
    CASE id.tag = "Inode" -> IF id.inode \in DOMAIN self.node_ids THEN Some(id.inode) ELSE None
      [] id.tag = "DriveId" ->
           IF id.drive_id \in DOMAIN self.drive_ids
           THEN Some(self.drive_ids[id.drive_id]) ELSE None
      [] id.tag = "NodeId" ->
           IF tree_valid(self.tree, id.node_id)
           THEN Some(self.tree.data[id.node_id]) ELSE None
      [] id.tag = "ParentAndName" -> find_by_name(children_of_inode(self, id.parent), id.name)

get_inode(self, id) ==
    CASE id.tag = "Inode" -> Some(id.inode)
      [] id.tag = "DriveId" ->
           IF id.drive_id \in DOMAIN self.drive_ids
           THEN Some(self.drive_ids[id.drive_id]) ELSE None
      [] id.tag = "NodeId" ->
           IF tree_valid(self.tree, id.node_id)
           THEN Some(self.tree.data[id.node_id]) ELSE None
      [] id.tag = "ParentAndName" -> find_by_name(children_of_inode(self, id.parent), id.name)

get_node_id(self, file_id) ==
    CASE file_id.tag = "Inode" -> node_of_inode(self, file_id.inode)
      [] file_id.tag = "DriveId" -> node_of_unwrapped(self, get_inode(self, file_id))
      [] file_id.tag = "NodeId" -> Some(file_id.node_id)
      [] file_id.tag = "ParentAndName" -> node_of_found(self, get_inode(self, file_id))

get_children(self, id) == children_of_node(self, get_node_id(self, id))

get_file(self, id) == file_at(self, get_inode(self, id))

\* get_mut_file, lines 200-201: the same lookup, for a mutable reference
get_mut_file(self, id) == file_at(self, get_inode(self, id))

\* get_drive_id, line 159, given get_file's result: `?`, then File::drive_id()
drive_id_of(file) ==
    IF IsPanic(file) THEN Panic
    ELSE IF file = None THEN None
    ELSE file_drive_id(Unwrap(file))

get_drive_id(self, id) == drive_id_of(get_file(self, id))

\* the Inode arm looking at the tree's nodes instead of node_ids (an inode
\* taken for a node index)
contains_inode_in_tree(self, file_id) ==
    CASE file_id.tag = "Inode" -> tree_valid(self.tree, file_id.inode)
      [] file_id.tag = "DriveId" -> file_id.drive_id \in DOMAIN self.drive_ids
      [] file_id.tag = "NodeId" -> tree_valid(self.tree, file_id.node_id)
      [] file_id.tag = "ParentAndName" -> IsSome(get_file(self, file_id))

contains(self, file_id) ==
    CASE file_id.tag = "Inode" -> file_id.inode \in DOMAIN self.node_ids
      [] file_id.tag = "DriveId" -> file_id.drive_id \in DOMAIN self.drive_ids
      [] file_id.tag = "NodeId" -> tree_valid(self.tree, file_id.node_id)
      [] file_id.tag = "ParentAndName" -> IsSome(get_file(self, file_id))

RECURSIVE first_free_from(_, _)

\* (n..).filter(|inode| !self.contains(FileId::Inode(*inode))).next()
first_free_from(self, n) ==
    IF ~contains(self, FileId_Inode(n)) THEN n ELSE first_free_from(self, n + 1)

\* the scan started at the number of registered inodes plus one
next_available_inode_from_len(self) == first_free_from(self, Cardinality(DOMAIN self.node_ids) + 1)

next_available_inode(self) == first_free_from(self, 1)

\* HashMap::insert
map_insert(m, k, v) == [x \in DOMAIN m \cup {k} |-> IF x = k THEN v ELSE m[x]]

\* add_file, lines 216-219, given get_node_id's result: unwrap(), then
\* Tree::insert(.., UnderNode(&parent_id)).unwrap(); the tree and the new
\* node's id
insert_under(t, data, p) ==
    IF IsPanic(p) \/ p = None THEN Panic
    ELSE IF ~tree_valid(t, Unwrap(p)) THEN Panic
    ELSE Some([tree |-> insert_under_node(t, data, Unwrap(p)), node_id |-> Len(t.data) + 1])

\* the tree insertion of add_file (lines 213-225): Some(tree, node) or Panic
add_file_node(self, file, parent) ==
    IF parent = None
    THEN Some([tree |-> insert_as_root(self.tree, file_inode(file)),
               node_id |-> Len(self.tree.data) + 1])
    ELSE insert_under(self.tree, file_inode(file), get_node_id(self, Unwrap(parent)))

\* the File stored only when it has a remote id (the insertion chained into
\* the and_then of line 229)
add_file_tables_files_in_and_then(self, file, node_id) ==
    [self EXCEPT
       !.node_ids = map_insert(@, file_inode(file), node_id),
       !.drive_ids = IF file_drive_id(file) = None THEN @
                     ELSE map_insert(@, Unwrap(file_drive_id(file)), file_inode(file)),
       !.files = IF file_drive_id(file) = None THEN @
                 ELSE map_insert(@, file_inode(file), file)]

\* the table insertions of add_file (lines 227-230)
add_file_tables(self, file, node_id) ==
    [self EXCEPT
       !.node_ids = map_insert(@, file_inode(file), node_id),
       !.drive_ids = IF file_drive_id(file) = None THEN @
                     ELSE map_insert(@, Unwrap(file_drive_id(file)), file_inode(file)),
       !.files = map_insert(@, file_inode(file), file)]

\* add_file after its tree insertion ins: the tables are written unless the
\* insertion panicked
add_file_after(self, file, ins) ==
    IF IsPanic(ins) THEN [self |-> self, panic |-> TRUE]
    ELSE [self |-> add_file_tables([self EXCEPT !.tree = Unwrap(ins).tree], file, Unwrap(ins).node_id),
          panic |-> FALSE]

\* the tables written before the parent is resolved and the node inserted
add_file_tables_first(self, file, parent) ==
    add_file_after(add_file_tables(self, file, Len(self.tree.data) + 1), file,
                   add_file_node(self, file, parent))

\* add_file: [self |-> the manager afterwards, panic |-> whether it panicked]
add_file(self, file, parent) == add_file_after(self, file, add_file_node(self, file, parent))

(* ------------------------ impl fmt::Debug ------------------------------ *)
\* The rendering is the sequence of its lines between "FileManager(" and
\* ")": a line is the number of tabs written before it, the inode and the
\* name ("{:3} => {}"). The stack holds (level, node) pairs, its top last.

\* the children pushed last child first, so that the first child is on top
fmt_push_last_child_first(t, stack, level, node_id) ==
    stack \o [k \in 1..Len(t.children[node_id]) |->
                 <<level + 1, t.children[node_id][Len(t.children[node_id]) + 1 - k]>>]

\* lines 259-261: children_ids(node_id).for_each(|id| stack.push((level + 1, id)))
fmt_push(t, stack, level, node_id) ==
    stack \o [k \in 1..Len(t.children[node_id]) |-> <<level + 1, t.children[node_id][k]>>]

RECURSIVE fmt_loop(_, _, _)

\* the while loop of lines 249-262: the top of the stack is popped and
\* written, then its children are pushed; out is the (level, node) pairs
\* written so far
fmt_loop(t, stack, out) ==
    IF stack = <<>> THEN out
    ELSE fmt_loop(t,
                  fmt_push(t, SubSeq(stack, 1, Len(stack) - 1), stack[Len(stack)][1], stack[Len(stack)][2]),
                  Append(out, stack[Len(stack)]))

\* the (level, node) pairs in the order fmt writes them, lines 243-262
fmt_visits(self) ==
    IF self.tree.root = 0 THEN <<>> ELSE fmt_loop(self.tree, <<<<0, self.tree.root>>>>, <<>>)

\* lines 252-257, given get_file(NodeId(node_id))'s result: unwrap(), then
\* level tabs and "inode => name"
fmt_line(level, file) ==
    IF IsPanic(file) \/ file = None THEN Panic
    ELSE [tabs |-> level, inode |-> file_inode(Unwrap(file)), name |-> Unwrap(file).name]

\* the lines written for the (level, node) pairs visits
fmt_lines(self, visits) ==
    [k \in 1..Len(visits) |-> fmt_line(visits[k][1], get_file(self, FileId_NodeId(visits[k][2])))]

\* fmt: the lines written
fmt(self) == fmt_lines(self, fmt_visits(self))

(* ---------------------------- DriveFacade ------------------------------ *)

\* DriveFacade::root_id()
root_id == "r"

\* the remote entries a listing can hold
EntA == [id |-> Some("a"), name |-> "a.txt", folder |-> FALSE]

EntB == [id |-> Some("b"), name |-> "b.txt", folder |-> FALSE]

EntS == [id |-> Some("s"), name |-> "sub", folder |-> TRUE]

EntT == [id |-> Some("t"), name |-> "top", folder |-> TRUE]

Containers == {"r", "t", "s"}

\* the sequences without repetition over S of length at most n
RECURSIVE InjSeqs(_, _)

InjSeqs(S, n) ==
    IF n = 0 THEN {<<>>}
    ELSE LET shorter == InjSeqs(S, n - 1) IN
         shorter \cup {Append(q, e) : q \in shorter, e \in S}

NoRepeat(q) == \A i, j \in 1..Len(q) : i # j => q[i] # q[j]

ListingsOver(S) == {q \in InjSeqs(S, MaxList) : NoRepeat(q)}

\* every finite acyclic remote hierarchy over the entries: a folder may be
\* listed under several containers, "t" may hold "s" but not the reverse
AllListings ==
    {l \in [Containers -> ListingsOver({EntA, EntB, EntS, EntT})] :
        /\ \A k \in 1..Len(l["t"]) : l["t"][k] # EntT
        /\ \A k \in 1..Len(l["s"]) : ~l["s"][k].folder}

\* the hierarchies of the operation runs: the root alone, the root with one
\* file, and root{a.txt, sub{b.txt}}
BaseListings ==
    {[c \in Containers |-> <<>>],
     [c \in Containers |-> IF c = "r" THEN <<EntA>> ELSE <<>>],
     [c \in Containers |-> IF c = "r" THEN <<EntA, EntS>> ELSE IF c = "s" THEN <<EntB>> ELSE <<>>]}

\* DriveFacade::get_all_files(Some(&parent))
get_all_files(parent) == listing[parent]

\* the ids DriveFacade::create hands out, in order
NewIds == <<"n1", "n2", "n3", "n4">>

\* DriveFacade::create: the id of the object created remotely
df_create(log) == NewIds[Cardinality({k \in 1..Len(log) : log[k].call = "create"}) + 1]

(* ----------------------------- population ------------------------------ *)

\* the root built like new_shared_with_me_file (lines 101-122), with no
\* remote descriptor
new_root_file_without_drive_file(self) ==
    [ino |-> next_available_inode(self),
     name |-> ".",
     kind |-> "Directory",
     drive_file |-> None]

\* FileManager::new_root_file
new_root_file(self) ==
    [ino |-> next_available_inode(self),
     name |-> ".",
     kind |-> "Directory",
     drive_file |-> Some([id |-> Some(root_id)])]

\* the call made last, whether it returned (ok) or panicked, and the
\* identifier given to a write
NoOp == [op |-> "none", ok |-> TRUE, arg |-> None]

\* the struct literal of with_drive_facade, before populate() runs
InitFields ==
    /\ tree = EmptyTree
    /\ files = <<>>
    /\ node_ids = <<>>
    /\ drive_ids = <<>>
    /\ df_log = <<>>
    /\ queue = <<>>
    /\ parent_id = root_id
    /\ pending = <<>>
    /\ pc = "populate"
    /\ cur = None
    /\ last = NoOp

Init == InitFields /\ listing \in BaseListings /\ budget = MaxOps

InitPopulate == InitFields /\ listing \in AllListings /\ budget = 0

SetSelf(r) ==
    /\ tree' = r.tree
    /\ files' = r.files
    /\ node_ids' = r.node_ids
    /\ drive_ids' = r.drive_ids

\* the manager after a call of add_file that returned r
Registered(r) ==
    /\ SetSelf(r.self)
    /\ pc' = IF r.panic THEN "panicked" ELSE IF pc = "create_file" THEN "ready" ELSE pc

LastCall(op, ok, arg) == last' = [op |-> op, ok |-> ok, arg |-> arg]

\* populate, lines 44-48: the root is registered and the queue seeded
PopulateRoot ==
    /\ pc = "populate"
    /\ SetSelf(add_file(Self, new_root_file(Self), None).self)
    /\ pc' = "loop"
    /\ queue' = <<root_id>>
    /\ UNCHANGED <<listing, df_log, parent_id, pending, cur, last, budget>>

\* populate, lines 50-52: the next container is popped and its children are
\* requested from the DriveFacade
PopulatePop ==
    /\ pc = "loop" /\ pending = <<>> /\ queue # <<>>
    /\ parent_id' = Head(queue)
    /\ queue' = Tail(queue)
    /\ pending' = get_all_files(Head(queue))
    /\ df_log' = Append(df_log, [call |-> "get_all_files", drive_id |-> Head(queue), offset |-> 0])
    /\ UNCHANGED <<tree, files, node_ids, drive_ids, listing, pc, cur, last, budget>>

\* the inode taken as the number of registered files (the last one given
\* out) instead of the first free one
next_file_inode_is_count == from_drive_file(Cardinality(DOMAIN node_ids), Head(pending))

\* the File built from the next entry of the listing, line 53
next_file == from_drive_file(next_available_inode(Self), Head(pending))

\* populate, lines 53-70: one entry of the listing is registered
PopulateChild ==
    /\ pc = "loop" /\ pending # <<>>
    /\ queue' = IF Head(pending).folder
                THEN Append(queue, Unwrap(Head(pending).id)) ELSE queue
    /\ Registered(add_file(Self, next_file,
                           IF contains(Self, FileId_DriveId(parent_id))
                           THEN Some(FileId_DriveId(parent_id)) ELSE None))
    /\ pending' = Tail(pending)
    /\ UNCHANGED <<listing, df_log, parent_id, cur, last, budget>>

\* populate, line 50: the queue is empty and the constructor returns
PopulateDone ==
    /\ pc = "loop" /\ pending = <<>> /\ queue = <<>>
    /\ pc' = "ready"
    /\ UNCHANGED <<tree, files, node_ids, drive_ids, listing, df_log, queue, parent_id, pending, cur, last, budget>>

NextPopulate == PopulateRoot \/ PopulatePop \/ PopulateChild \/ PopulateDone

SpecPopulate == InitPopulate /\ [][NextPopulate]_vars

\* with_drive_facade runs populate() to its end: a step of the loop that can
\* be taken is taken
SpecPopulateFair == SpecPopulate /\ WF_vars(NextPopulate)

(* ------------------------- calls after construction -------------------- *)

Names == {"a.txt", "c.txt"}

Offsets == {10}

\* the inodes a caller puts into a File: the root's, the first free one,
\* and the one after it
InodeInputs == {1, next_available_inode(Self), next_available_inode(Self) + 1}

\* the identifiers a caller passes: registered and unregistered inodes and
\* remote ids, the root node and a foreign node reference, parent+name pairs
IdInputs ==
    {FileId_Inode(i) : i \in {1, next_available_inode(Self)}}
      \cup {FileId_DriveId(d) : d \in {root_id, "zz"}}
      \cup {FileId_NodeId(n) : n \in {0, tree.root}}
      \cup {FileId_ParentAndName(1, n) : n \in {"sub", "c.txt"}}

ParentInputs == {None} \cup {Some(id) : id \in IdInputs}

\* the Files handed to add_file: a fresh name, the root's inode, the first
\* free one or the one after it, without remote descriptor or carrying the
\* remote id "a"
AddInputs ==
    {[ino |-> i, name |-> "c.txt", kind |-> "RegularFile", drive_file |-> d] :
        i \in InodeInputs, d \in {None, Some([id |-> Some("a")])}}

\* the Files handed to create_file: a listed or a fresh name, the root's
\* inode or the first free one, without remote descriptor or with a
\* descriptor that has no id yet
CreateInputs ==
    {[ino |-> i, name |-> n, kind |-> "RegularFile", drive_file |-> d] :
        i \in {1, next_available_inode(Self)}, n \in Names, d \in {None, Some([id |-> None])}}

Ready == pc = "ready" /\ budget > 0

\* add_file(file, parent), lines 212-231
AddFile(file, parent) ==
    /\ Ready
    /\ Registered(add_file(Self, file, parent))
    /\ LastCall("add_file", pc' # "panicked", None)
    /\ budget' = budget - 1
    /\ UNCHANGED <<listing, df_log, queue, parent_id, pending, cur>>

\* create_file without line 207: the id create returned is not set
CreateFileRemote_id_not_set(file, parent) ==
    /\ Ready
    /\ budget' = budget - 1
    /\ IF file.drive_file = None
       THEN /\ pc' = "panicked"
            /\ LastCall("create_file", FALSE, None)
            /\ UNCHANGED <<df_log, cur>>
       ELSE /\ df_log' = Append(df_log, [call |-> "create", drive_id |-> df_create(df_log), offset |-> 0])
            /\ cur' = Some([file |-> file, parent |-> parent])
            /\ pc' = "create_file"
            /\ UNCHANGED last
    /\ UNCHANGED <<tree, files, node_ids, drive_ids, listing, queue, parent_id, pending>>

\* create_file, lines 206-207: the remote object is created and its id set
CreateFileRemote(file, parent) ==
    /\ Ready
    /\ budget' = budget - 1
    /\ IF file.drive_file = None
       THEN /\ pc' = "panicked"
            /\ LastCall("create_file", FALSE, None)
            /\ UNCHANGED <<df_log, cur>>
       ELSE /\ df_log' = Append(df_log, [call |-> "create", drive_id |-> df_create(df_log), offset |-> 0])
            /\ cur' = Some([file |-> set_drive_id(file, df_create(df_log)), parent |-> parent])
            /\ pc' = "create_file"
            /\ UNCHANGED last
    /\ UNCHANGED <<tree, files, node_ids, drive_ids, listing, queue, parent_id, pending>>

\* create_file with a rollback: when the local registration fails, the
\* object just created is deleted remotely
CreateFileLocal_rolls_back ==
    /\ pc = "create_file"
    /\ Registered(add_file(Self, Unwrap(cur).file, Unwrap(cur).parent))
    /\ LastCall("create_file", pc' # "panicked", None)
    /\ cur' = None
    /\ df_log' = IF pc' = "panicked"
                 THEN Append(df_log, [call |-> "delete", drive_id |-> df_log[Len(df_log)].drive_id, offset |-> 0])
                 ELSE df_log
    /\ UNCHANGED <<listing, queue, parent_id, pending, budget>>

\* create_file, line 208: the local registration
CreateFileLocal ==
    /\ pc = "create_file"
    /\ Registered(add_file(Self, Unwrap(cur).file, Unwrap(cur).parent))
    /\ LastCall("create_file", pc' # "panicked", None)
    /\ cur' = None
    /\ UNCHANGED <<listing, df_log, queue, parent_id, pending, budget>>

\* write with unwrap_or_default() for unwrap(): an unresolved identifier
\* is forwarded as the empty remote id
WriteTo_unwrap_or_default(drive_id, id, offset) ==
    /\ df_log' = Append(df_log, [call |-> "write",
                                  drive_id |-> IF IsSome(drive_id) THEN Unwrap(drive_id) ELSE "",
                                  offset |-> offset])
    /\ LastCall("write", TRUE, None)
    /\ UNCHANGED pc

\* write after the resolution of its identifier, lines 234-235
WriteTo(drive_id, id, offset) ==
    IF IsPanic(drive_id) \/ drive_id = None
    THEN /\ pc' = "panicked"
         /\ LastCall("write", FALSE, Some(id))
         /\ UNCHANGED df_log
    ELSE /\ df_log' = Append(df_log, [call |-> "write", drive_id |-> Unwrap(drive_id), offset |-> offset])
         /\ LastCall("write", TRUE, None)
         /\ UNCHANGED pc

\* write(id, offset, data), lines 233-236
Write(id, offset) ==
    /\ Ready
    /\ budget' = budget - 1
    /\ WriteTo(get_drive_id(Self, id), id, offset)
    /\ UNCHANGED <<tree, files, node_ids, drive_ids, listing, queue, parent_id, pending, cur>>

Next ==
    \/ PopulateRoot
    \/ PopulatePop
    \/ PopulateChild
    \/ PopulateDone
    \/ \E file \in AddInputs, parent \in ParentInputs : AddFile(file, parent)
    \/ \E file \in CreateInputs, parent \in ParentInputs : CreateFileRemote(file, parent)
    \/ CreateFileLocal
    \/ \E id \in IdInputs, offset \in Offsets : Write(id, offset)

Spec == Init /\ [][Next]_vars

(* ------------------------------- claims -------------------------------- *)

\* the nodes of the tree that have no parent
Rootless == {n \in 1..Len(tree.parent) : tree.parent[n] = 0}

\* C1: in every state reached by population followed by add_file and
\* create_file calls, node_ids and files have the same key set.
C1_SameKeys == DOMAIN node_ids = DOMAIN files

\* C1 witness: a create_file has returned after construction and the tables
\* hold the root and at least one more file.
C1_Witness ==
    /\ last.op = "create_file" /\ last.ok
    /\ Cardinality(DOMAIN files) >= 2
    /\ DOMAIN node_ids = DOMAIN files

\* C2: once the root is registered, exactly one node of the tree has no
\* parent, also after add_file / create_file with no parent given.
C2_SingleRoot == pc # "populate" => Cardinality(Rootless) = 1

\* C2 witness: an add_file with no parent has returned after construction
\* (the root is no longer the first node) and one node is parentless.
C2_Witness ==
    /\ last.op = "add_file" /\ last.ok
    /\ tree.root # 1
    /\ Len(tree.data) >= 2
    /\ Cardinality(Rootless) = 1

\* C3: for every registered File with remote id r and inode i,
\* get_inode(DriveId(r)) is i and the File get_file(Inode(i)) returns has
\* remote id r.
C3_RoundTrip ==
    \A i \in DOMAIN files :
        file_drive_id(files[i]) # None =>
            /\ get_inode(Self, FileId_DriveId(Unwrap(file_drive_id(files[i])))) = Some(i)
            /\ get_drive_id(Self, FileId_Inode(i)) = file_drive_id(files[i])

\* C4: distinct registered inodes whose Files have a remote descriptor have
\* different remote ids; drive_ids is injective and maps only to files with
\* a remote descriptor.
C4_RemoteIdInjective ==
    /\ \A a, b \in DOMAIN files :
          (a # b /\ file_drive_id(files[a]) # None /\ file_drive_id(files[b]) # None)
              => file_drive_id(files[a]) # file_drive_id(files[b])
    /\ \A r, q \in DOMAIN drive_ids : r # q => drive_ids[r] # drive_ids[q]
    /\ \A r \in DOMAIN drive_ids :
          /\ drive_ids[r] \in DOMAIN files
          /\ file_drive_id(files[drive_ids[r]]) # None

\* C5: next_available_inode is the smallest positive integer that is not a
\* key of the inode table, and never a registered inode.
C5_FirstFit ==
    /\ next_available_inode(Self) >= 1
    /\ next_available_inode(Self) \notin DOMAIN node_ids \cup DOMAIN files
    /\ \A j \in 1..(next_available_inode(Self) - 1) : j \in DOMAIN node_ids

\* C5 witness: the inodes 1, 2 and 4 are registered and the allocator
\* returns 3.
C5_Witness == DOMAIN node_ids = {1, 2, 4} /\ next_available_inode(Self) = 3

\* the manager's fields after a step
SelfNext == [tree |-> tree', files |-> files', node_ids |-> node_ids', drive_ids |-> drive_ids']

\* the inode carried by the tree's root node
root_inode == tree.data[tree.root]

\* the id the last call of DriveFacade::create returned
created_id == df_log[Len(df_log)].drive_id

\* C6, first half: the step of create_file that calls DriveFacade::create
\* leaves the tree and the tables as they are, and the step of create_file
\* that registers the file runs after that call, with the id it returned.
C6_CreateFirstStep ==
    /\ (pc = "ready" /\ pc' = "create_file") =>
          /\ SelfNext = Self
          /\ Len(df_log') = Len(df_log) + 1
          /\ df_log'[Len(df_log')].call = "create"
    /\ (pc = "create_file" /\ SelfNext # Self) =>
          /\ df_log # <<>>
          /\ df_log[Len(df_log)].call = "create"
          /\ file_drive_id(Unwrap(cur).file) = Some(created_id)
          /\ df_log' = df_log

\* a create_file of a file placed under the root has returned
CreatedUnderRoot ==
    /\ pc = "create_file" /\ pc' = "ready"
    /\ Unwrap(cur).parent # None
    /\ get_node_id(Self, Unwrap(Unwrap(cur).parent)) = node_of_inode(Self, root_inode)

\* the file named as the created one under the root is found and has the id
\* create returned
FoundWithCreatedId ==
    /\ contains(SelfNext, FileId_ParentAndName(root_inode, Unwrap(cur).file.name))
    /\ get_drive_id(SelfNext, FileId_ParentAndName(root_inode, Unwrap(cur).file.name)) = Some(created_id)

NoRemoteId(id) ==
    \/ get_file(Self, id) = None
    \/ IsSome(get_file(Self, id)) /\ file_drive_id(Unwrap(get_file(Self, id))) = None

\* C7: a write on an identifier that does not resolve, or resolves to a
\* file without remote descriptor, fails; DriveFacade::write is not
\* invoked and the tree and the tables are unchanged.
C7_WriteUnresolved ==
    [][\A id \in IdInputs, offset \in Offsets :
          (Write(id, offset) /\ NoRemoteId(id)) =>
              /\ pc' = "panicked"
              /\ ~last'.ok
              /\ df_log' = df_log
              /\ SelfNext = Self]_vars

\* C7 witness: a write has failed on an identifier that resolves to a File
\* without remote descriptor, and no write reached the DriveFacade.
C7_Witness ==
    /\ pc = "panicked" /\ last.op = "write" /\ ~last.ok
    /\ IsSome(get_file(Self, Unwrap(last.arg)))
    /\ file_drive_id(Unwrap(get_file(Self, Unwrap(last.arg)))) = None
    /\ \A k \in 1..Len(df_log) : df_log[k].call # "write"

\* the File of a child as the listing entry it was built from
as_entry(file) == [id |-> file_drive_id(file), name |-> file.name, folder |-> file.kind = "Directory"]

\* C8: after population, for every remote container c that was listed (the
\* root and every listed folder), get_children of the node carrying remote
\* id c returns exactly the entries listed under c, in order.
C8_Mirror ==
    pc = "ready" =>
        \A c \in Containers \cap DOMAIN drive_ids :
            /\ IsSome(get_children(Self, FileId_DriveId(c)))
            /\ [k \in 1..Len(Unwrap(get_children(Self, FileId_DriveId(c)))) |->
                  as_entry(Unwrap(get_children(Self, FileId_DriveId(c)))[k])] = listing[c]

\* C9: a call of add_file that fails (by itself or inside create_file)
\* leaves the tree and the three tables exactly as they were.
C9_AddFileAtomic ==
    [][(pc' = "panicked" /\ (last'.op = "add_file" \/ pc = "create_file")) => SelfNext = Self]_vars

\* C9 witness: an add_file has failed after construction, the tables still
\* holding the populated files.
C9_Witness ==
    /\ pc = "panicked" /\ last.op = "add_file" /\ ~last.ok
    /\ DOMAIN files # {} /\ DOMAIN node_ids = DOMAIN files

\* the inodes asked about: the registered ones, zero and two free ones
InodesAsked == 0..(next_available_inode(Self) + 1)

\* C10 as stated: after construction, get_inode(Inode(i)) is i when i is in
\* the inode table and not-found otherwise.
C10_Original ==
    pc = "ready" =>
        \A i \in InodesAsked :
            get_inode(Self, FileId_Inode(i)) = IF i \in DOMAIN node_ids THEN Some(i) ELSE None

\* C10 amended: get_inode(Inode(i)) is i for every i, in the inode table or
\* not; for an i that is not in the table it is get_file, get_node_id and
\* contains that report the absence.
C10_InodeAsIs ==
    \A i \in InodesAsked :
        /\ get_inode(Self, FileId_Inode(i)) = Some(i)
        /\ i \in DOMAIN node_ids =>
              /\ IsSome(get_file(Self, FileId_Inode(i)))
              /\ IsSome(get_node_id(Self, FileId_Inode(i)))
        /\ i \notin DOMAIN node_ids =>
              /\ get_file(Self, FileId_Inode(i)) = None
              /\ get_node_id(Self, FileId_Inode(i)) = None
              /\ ~contains(Self, FileId_Inode(i))

\* C10 witness: after an add_file that left a gap, get_inode of the
\* unregistered inode in the gap is that inode and its File is absent.
C10_Witness ==
    /\ pc = "ready" /\ last.op = "add_file"
    /\ \E i \in 1..Cardinality(DOMAIN node_ids) :
          /\ i \notin DOMAIN node_ids
          /\ get_inode(Self, FileId_Inode(i)) = Some(i)
          /\ get_file(Self, FileId_Inode(i)) = None

\* the identifiers asked about: of each form, registered ones and ones that
\* do not resolve (a free inode, an unknown remote id, node references the
\* tree never handed out, names no child has, a parent that is not registered)
IdsAsked ==
    {FileId_Inode(i) : i \in {1, next_available_inode(Self)}}
      \cup {FileId_DriveId(d) : d \in {root_id, "a", "zz"}}
      \cup {FileId_NodeId(n) : n \in {0, tree.root, Len(tree.data) + 1}}
      \cup {FileId_ParentAndName(p, n) : p \in {1, next_available_inode(Self)},
                                          n \in {"a.txt", "c.txt", "sub", "zz"}}

\* the identifier does not resolve: its inode or remote id is in no table,
\* its node reference is not a node of the tree, its parent is not
\* registered or no child of its parent has a File of that name
Unresolved(id) ==
    CASE id.tag = "Inode" -> id.inode \notin DOMAIN node_ids
      [] id.tag = "DriveId" -> id.drive_id \notin DOMAIN drive_ids
      [] id.tag = "NodeId" -> id.node_id \notin 1..Len(tree.data)
      [] id.tag = "ParentAndName" ->
           \/ id.parent \notin DOMAIN node_ids
           \/ \A k \in 1..Len(tree.children[node_ids[id.parent]]) :
                 \/ tree.data[tree.children[node_ids[id.parent]][k]] \notin DOMAIN files
                 \/ files[tree.data[tree.children[node_ids[id.parent]][k]]].name # id.name

\* C11: after construction, for every identifier that does not resolve,
\* get_node_id, get_drive_id, get_children, get_file and get_mut_file
\* return absent and contains returns false; none of them aborts.
C11_NeverFatal ==
    pc = "ready" =>
        \A id \in IdsAsked :
            Unresolved(id) =>
                /\ get_node_id(Self, id) = None
                /\ get_drive_id(Self, id) = None
                /\ get_children(Self, id) = None
                /\ get_file(Self, id) = None
                /\ get_mut_file(Self, id) = None
                /\ ~contains(Self, id)

\* C12: once the root is registered, the tree's root and only parentless
\* node is the node of the first file registered (the first node the tree
\* made, for the synthetic root), also after add_file / create_file with no
\* parent.
C12_RootIsFirst ==
    pc # "populate" =>
        /\ tree.root = 1
        /\ Rootless = {1}

\* the node registered for the inode p and its child nodes, in tree order
kids(p) == tree.children[node_ids[p]]

\* the k-th child of p carries an inode whose File is named n
named(p, k, n) ==
    /\ tree.data[kids(p)[k]] \in DOMAIN files
    /\ files[tree.data[kids(p)[k]]].name = n

\* the parents and names asked about: every registered inode and a free
\* one; listed names, created names and a name no file has
ParentsAsked == DOMAIN node_ids \cup {next_available_inode(Self)}

NamesAsked == {"a.txt", "b.txt", "c.txt", "sub", "zz"}

\* C13: get_inode(ParentAndName{p, n}) is the inode carried by the first
\* child of p's node, in tree order, whose File is named n; it is not-found
\* when p is not registered or no child of p has that name.
C13_FirstMatch ==
    \A p \in ParentsAsked, n \in NamesAsked :
        IF p \notin DOMAIN node_ids
        THEN get_inode(Self, FileId_ParentAndName(p, n)) = None
        ELSE IF \A k \in 1..Len(kids(p)) : ~named(p, k, n)
        THEN get_inode(Self, FileId_ParentAndName(p, n)) = None
        ELSE \E k \in 1..Len(kids(p)) :
                /\ named(p, k, n)
                /\ \A j \in 1..(k - 1) : ~named(p, j, n)
                /\ get_inode(Self, FileId_ParentAndName(p, n)) = Some(tree.data[kids(p)[k]])

\* C13 witness: two children of one parent, with different inodes, have
\* Files of the same name, and the name resolves to the first of them.
C13_Witness ==
    \E p \in DOMAIN node_ids, n \in NamesAsked :
        \E k1, k2 \in 1..Len(kids(p)) :
            /\ k1 < k2
            /\ named(p, k1, n) /\ named(p, k2, n)
            /\ \A j \in 1..(k1 - 1) : ~named(p, j, n)
            /\ tree.data[kids(p)[k1]] # tree.data[kids(p)[k2]]
            /\ get_inode(Self, FileId_ParentAndName(p, n)) = Some(tree.data[kids(p)[k1]])

\* C14: distinct tree nodes carry distinct inodes, and for every node n
\* carrying inode i, get_node_id(Inode(i)) is n and get_inode(NodeId(n)) is i.
C14_NodesAndInodes ==
    /\ \A n, m \in 1..Len(tree.data) : n # m => tree.data[n] # tree.data[m]
    /\ \A n \in 1..Len(tree.data) :
          /\ get_node_id(Self, FileId_Inode(tree.data[n])) = Some(n)
          /\ get_inode(Self, FileId_NodeId(n)) = Some(tree.data[n])

\* the remote ids of the folders listed under the containers of S
FoldersIn(S) ==
    UNION {{Unwrap(listing[c][k].id) : k \in {j \in 1..Len(listing[c]) : listing[c][j].folder}} : c \in S}

\* the containers of the remote hierarchy: the root and every folder listed
\* under a container of the hierarchy (the hierarchy is at most three deep)
ContainersBelowRoot == {root_id} \cup FoldersIn({root_id})

ListedContainers == ContainersBelowRoot \cup FoldersIn(ContainersBelowRoot \cup FoldersIn(ContainersBelowRoot))

\* the number of entries listed under the containers of the hierarchy
ListedEntries ==
    (IF "r" \in ListedContainers THEN Len(listing["r"]) ELSE 0)
      + (IF "t" \in ListedContainers THEN Len(listing["t"]) ELSE 0)
      + (IF "s" \in ListedContainers THEN Len(listing["s"]) ELSE 0)

\* how often the children of container c were requested
Requests(c) ==
    Cardinality({k \in 1..Len(df_log) : df_log[k].call = "get_all_files" /\ df_log[k].drive_id = c})

\* population ends: the constructor returns, with the queue empty
C15_Terminates == <>(pc = "ready" /\ queue = <<>>)

\* C15: when population has ended the queue is empty, the children of every
\* container of the hierarchy were requested exactly once (and of no other),
\* and one File per listed entry was registered besides the synthetic root.
C15_EachOnce ==
    pc = "ready" =>
        /\ queue = <<>>
        /\ \A c \in Containers : Requests(c) = IF c \in ListedContainers THEN 1 ELSE 0
        /\ Len(tree.data) = 1 + ListedEntries
        /\ Cardinality(DOMAIN files) = 1 + ListedEntries

\* no table of the manager m has an entry for the remote id d
NoEntryFor(m, d) ==
    /\ d \notin DOMAIN m.drive_ids
    /\ \A i \in DOMAIN m.files : file_drive_id(m.files[i]) # Some(d)

\* C16: when the local registration of create_file fails after
\* DriveFacade::create returned, the remote object stays created (no further
\* call reaches the DriveFacade), the tree and the tables are as before the
\* call and hold no entry for the created id.
C16_OrphanedRemote ==
    [][(pc = "create_file" /\ pc' = "panicked") =>
          /\ df_log # <<>> /\ df_log[Len(df_log)].call = "create"
          /\ df_log' = df_log
          /\ SelfNext = Self
          /\ Len(tree'.data) = Len(tree.data)
          /\ NoEntryFor(SelfNext, created_id)]_vars

\* C16 witness: a create_file has failed in its local registration; the
\* DriveFacade's last call is the create and no table knows the created id.
C16_Witness ==
    /\ pc = "panicked" /\ last.op = "create_file" /\ ~last.ok
    /\ df_log # <<>> /\ df_log[Len(df_log)].call = "create"
    /\ NoEntryFor(Self, created_id)

RECURSIVE depth(_)

\* the number of ancestors of node n
depth(n) == IF tree.parent[n] = 0 THEN 0 ELSE 1 + depth(tree.parent[n])

RECURSIVE is_under(_, _)

\* node m is n or a descendant of n
is_under(m, n) == m = n \/ (tree.parent[m] # 0 /\ is_under(tree.parent[m], n))

\* the position of node n among the (level, node) pairs v, 0 if it has none
pos(v, n) ==
    IF \E k \in 1..Len(v) : v[k][2] = n
    THEN CHOOSE k \in 1..Len(v) : v[k][2] = n
    ELSE 0

\* the lines are those of the pairs v, written depth-first in pre-order from
\* the root: every node has exactly one line, "inode => name" of its File
\* behind as many tabs as its depth; the first line is the root's, a node's
\* line comes after its parent's, and the lines of a node's subtree follow
\* the node's line without interruption
PreOrderLines(v, lines) ==
    /\ Len(lines) = Len(tree.data)
    /\ Len(v) = Len(tree.data)
    /\ \A n \in 1..Len(tree.data) :
          /\ pos(v, n) # 0
          /\ lines[pos(v, n)] = [tabs |-> depth(n), inode |-> tree.data[n], name |-> files[tree.data[n]].name]
          /\ tree.parent[n] # 0 => pos(v, tree.parent[n]) < pos(v, n)
          /\ \A m \in 1..Len(tree.data) :
                is_under(m, n) <=>
                    /\ pos(v, n) <= pos(v, m)
                    /\ pos(v, m) < pos(v, n) + Cardinality({d \in 1..Len(tree.data) : is_under(d, n)})
    /\ tree.root # 0 => pos(v, tree.root) = 1

\* in v, the children of every node stand in tree order
SiblingsInOrder(v) ==
    \A n \in 1..Len(tree.data) : \A j, k \in 1..Len(tree.children[n]) :
        j < k => pos(v, tree.children[n][j]) < pos(v, tree.children[n][k])

\* in v, the children of every node stand in reverse tree order
SiblingsLastFirst(v) ==
    \A n \in 1..Len(tree.data) : \A j, k \in 1..Len(tree.children[n]) :
        j < k => pos(v, tree.children[n][k]) < pos(v, tree.children[n][j])

\* C17 as stated: the rendering is depth-first pre-order and siblings appear
\* in tree order.
C17_Original ==
    PreOrderLines(fmt_visits(Self), fmt(Self)) /\ SiblingsInOrder(fmt_visits(Self))

\* C17 amended: the rendering is depth-first pre-order and siblings appear in
\* reverse tree order, the child inserted last first.
C17_PreOrderLastChildFirst ==
    PreOrderLines(fmt_visits(Self), fmt(Self)) /\ SiblingsLastFirst(fmt_visits(Self))

\* the second child of the root stands before the first in v
SecondBeforeFirst(v) ==
    pos(v, tree.children[tree.root][2]) < pos(v, tree.children[tree.root][1])

\* C17 witness: population has ended with a tree three levels deep whose
\* root has two children; the second child's line precedes the first's.
C17_Witness ==
    /\ pc = "ready"
    /\ Len(tree.children[tree.root]) = 2
    /\ \E n \in 1..Len(tree.data) : depth(n) = 2
    /\ Len(fmt(Self)) = Len(tree.data)
    /\ SecondBeforeFirst(fmt_visits(Self))

\* C18: during population every remote id in the queue, and the one whose
\* children are being attached, is a key of drive_ids, so every child is
\* attached under a parent (line 67) and never as a new root (line 69): the
\* root stays the first node and the only parentless one.
C18_NoFallback ==
    pc = "loop" =>
        /\ \A k \in 1..Len(queue) : contains(Self, FileId_DriveId(queue[k]))
        /\ pending # <<>> => contains(Self, FileId_DriveId(parent_id))
        /\ tree.root = 1
        /\ Rootless = {1}

\* C18 witness: the children of a listed folder (not the root) are being
\* attached, the folder's remote id is registered and its node is not the
\* root.
C18_Witness ==
    /\ pc = "loop" /\ pending # <<>>
    /\ parent_id # root_id
    /\ contains(Self, FileId_DriveId(parent_id))
    /\ get_node_id(Self, FileId_DriveId(parent_id)) # Some(tree.root)
    /\ tree.root = 1

\* C19: once the root is registered and until population has ended, the
\* synthetic root has inode 1, the registered inodes are exactly 1..N for N
\* registered files, and no two tree nodes were given the same inode.
C19_Contiguous ==
    pc \in {"loop", "ready"} =>
        /\ tree.data[tree.root] = 1
        /\ files[1].name = "." /\ file_inode(files[1]) = 1
        /\ DOMAIN files = 1..Cardinality(DOMAIN files)
        /\ DOMAIN node_ids = 1..Cardinality(DOMAIN files)
        /\ Len(tree.data) = Cardinality(DOMAIN files)
        /\ \A n, m \in 1..Len(tree.data) : n # m => tree.data[n] # tree.data[m]

\* C19 witness: population has ended with the root and at least three
\* listed entries registered under the inodes 1..N.
C19_Witness ==
    /\ pc = "ready"
    /\ Cardinality(DOMAIN files) >= 4
    /\ DOMAIN node_ids = 1..Cardinality(DOMAIN files)
    /\ tree.data[tree.root] = 1

\* every identifier built from what the manager holds, and of each form
\* some it does not hold: the inodes up to two past the first free one, the
\* registered remote ids and an unknown one, the nodes of the tree and two
\* references it never handed out, the asked parents with the asked names
EveryIdAsked ==
    {FileId_Inode(i) : i \in InodesAsked}
      \cup {FileId_DriveId(d) : d \in DOMAIN drive_ids \cup {"a", "zz"}}
      \cup {FileId_NodeId(n) : n \in 0..(Len(tree.data) + 1)}
      \cup {FileId_ParentAndName(p, n) : p \in ParentsAsked, n \in NamesAsked}

\* C20: for every identifier of each of the four forms, contains(id) is
\* true exactly when get_file(id) returns a File.
C20_ContainsIffFile ==
    \A id \in EveryIdAsked : contains(Self, id) <=> IsSome(get_file(Self, id))

\* C20 witness: after an add_file that left a gap in the inodes, an
\* identifier of each form is contained and has a File, and an identifier
\* of each form is not contained and has none.
C20_Witness ==
    /\ pc = "ready" /\ last.op = "add_file" /\ last.ok
    /\ next_available_inode(Self) < Cardinality(DOMAIN node_ids) + 1
    /\ \A tag \in {"Inode", "DriveId", "NodeId", "ParentAndName"} :
          /\ \E id \in EveryIdAsked :
                id.tag = tag /\ contains(Self, id) /\ IsSome(get_file(Self, id))
          /\ \E id \in EveryIdAsked :
                id.tag = tag /\ ~contains(Self, id) /\ get_file(Self, id) = None

====
